---- MODULE Spec2Model ----
(***************************************************************************)
(* UniqueReproducer (erpy/instances/reproducers/unique.py): the archive    *)
(* attach-or-create step, the generic population initialiser and the       *)
(* two-tier mutate / regenerate retry loop of reproduce, as a state        *)
(* machine.  One action per statement group of the source; the program     *)
(* counter pc names the source position the single thread of control is    *)
(* at.  The uniqueness test, Genome.generate, Genome.mutate, the id        *)
(* counter and the population's selection / evaluation are collaborators   *)
(* outside the file and are modelled by their contract.                    *)
(***************************************************************************)
EXTENDS Integers, FiniteSets, Sequences, TLC

\* ------------------------------------------------------------------ bounds
MaxRetries == 2
MaxPopulation == 2
MaxGenomeIds == 4
NumSignatures == 2

\* ------------------------------------------------------------- value sets
NoArchive == 0
NoKey == 0
NoMetric == -1
NoId == -1
MinRetries == -1
NoGenome == [genome_id |-> NoId, sig |-> 0]
NoTest == [genome |-> NoGenome, result |-> FALSE, made |-> FALSE]

Signatures == 1..NumSignatures
TestKinds == {"accept", "reject", "recording", "any"}

VARIABLES
    \* configuration (UniqueReproducerConfig, population.config)
    max_retries, population_size, has_initialisation_f, test_kind,
    \* reproducer
    archive, next_genome_id,
    \* population
    genomes, to_evaluate, to_reproduce, saving_data, logging_data,
    \* the set objects saving_data and the reproducer refer to
    heap,
    \* control: position and locals of the running method
    pc, todo, parent_id, child_id, child_genome, num_retries,
    num_to_generate, i, genome_id, genome,
    \* observation of the run
    last_call, started_empty, ids_at_call, archive_at_call, key_at_call,
    pending_at_call,
    last_test, n_mutate, n_generate, n_test, mutate_exit, outcome,
    \* the genome the latest mutate call of the running mutate loop was made on
    mutate_arg

config == <<max_retries, population_size, has_initialisation_f, test_kind>>
locals == <<todo, parent_id, child_id, child_genome, num_retries,
            num_to_generate, i, genome_id, genome>>
population == <<genomes, to_evaluate, to_reproduce, saving_data, logging_data>>
observed == <<last_call, started_empty, ids_at_call, archive_at_call,
              key_at_call, pending_at_call,
              last_test, n_mutate, n_generate, n_test, mutate_exit, outcome,
              mutate_arg>>
call == <<last_call, started_empty, ids_at_call, archive_at_call, key_at_call,
          pending_at_call>>
perItem == <<last_test, n_mutate, n_generate, n_test, mutate_exit, outcome,
             mutate_arg>>
vars == <<config, archive, next_genome_id, population, heap, pc, locals, observed>>

InitialisePcs == {"init_for", "init_while"}
ReproducePcs == {"repr_for", "repr_mutate_while", "repr_regen_while"}

Ids == DOMAIN genomes

\* The archive the population persists, as a set of signatures.
PersistedArchive == IF saving_data = NoKey THEN {} ELSE heap[saving_data]

\* ---------------------------------------------------------- collaborators
\* uniqueness_test(archive, genome, population): the possible outcomes of
\* one call, each the returned boolean and the archive's contents after it.
\* A configuration whose uniqueness_test is None has no outcome: the call
\* raises (CallAbsentTest).
UniquenessTest(kind, arch, g) ==
    CASE kind = "absent" -> {}
      [] kind = "accept" -> {[result |-> TRUE, arch |-> arch]}
      [] kind = "reject" -> {[result |-> FALSE, arch |-> arch]}
      [] kind = "recording" ->
           IF g.sig \in arch
           THEN {[result |-> FALSE, arch |-> arch]}
           ELSE {[result |-> TRUE, arch |-> arch \cup {g.sig}]}
      [] OTHER -> {[result |-> FALSE, arch |-> arch],
                   [result |-> TRUE, arch |-> arch]}

\* The signatures some genome or archive entry of the current state has.
UsedSignatures ==
    ({genomes[id].sig : id \in Ids}
        \cup UNION {heap[o] : o \in DOMAIN heap}
        \cup {genome.sig, child_genome.sig, last_test.genome.sig})
    \cap Signatures

\* What a new genome can look like: like something already seen, or new.
\* Signatures are only ever compared for equality, so one unused signature
\* (the least) stands for all of them.
NewSignatures ==
    UsedSignatures \cup
        {s \in Signatures \ UsedSignatures :
            \A u \in Signatures \ UsedSignatures : s <= u}

\* Genome.generate(config, genome_id): a fresh random genome under the id.
Generate(id) == {[genome_id |-> id, sig |-> s] : s \in NewSignatures}

\* genome.mutate(child_id): a perturbed copy under the new id.
Mutate(g, id) == {[genome_id |-> id, sig |-> s] : s \in NewSignatures}

\* ------------------------------------------------------------ conditions
\* Faults of the conditions: an off-by-one in the retry bound, and in the
\* admission test.
ContinueRetry_Le(accepted, n) == ~accepted /\ n <= max_retries

AdmitChild_Le(n) == n <= max_retries

\* Fault of the loop condition: the retry budget is not looked at.
ContinueRetry_Unbounded(accepted, n) == ~accepted

\* Fault of the loop condition: the answer of the test is ignored.
ContinueRetry_IgnoreTest(accepted, n) == n < max_retries

\* The loop condition of the three retry loops.
ContinueRetry(accepted, n) == ~accepted /\ n < max_retries

\* if num_retries == self.config.max_retries
EnterRegenerate(n) == n = max_retries

\* if num_retries < self.config.max_retries
AdmitChild(n) == n < max_retries

\* assert self._archive is not None
ArchiveAsserted == archive # NoArchive

\* The reproducer just constructed against a new population, and no call
\* made yet.
FreshRun ==
    /\ population_size \in 0..MaxPopulation
    /\ has_initialisation_f \in BOOLEAN
    /\ archive = NoArchive
    /\ next_genome_id = 0
    /\ genomes = <<>>
    /\ to_evaluate = {}
    /\ to_reproduce = {}
    /\ saving_data = NoKey
    /\ logging_data = NoMetric
    /\ heap = <<>>
    /\ pc = "idle"
    /\ todo = {}
    /\ parent_id = NoId
    /\ child_id = NoId
    /\ child_genome = NoGenome
    /\ num_retries = 0
    /\ num_to_generate = 0
    /\ i = 0
    /\ genome_id = NoId
    /\ genome = NoGenome
    /\ last_call = "none"
    /\ started_empty = FALSE
    /\ ids_at_call = {}
    /\ archive_at_call = NoArchive
    /\ key_at_call = NoKey
    /\ pending_at_call = {}
    /\ last_test = NoTest
    /\ n_mutate = 0
    /\ n_generate = 0
    /\ n_test = 0
    /\ mutate_exit = "none"
    /\ outcome = "none"
    /\ mutate_arg = NoGenome

\* A run under a configuration the specification calls valid.
Init ==
    /\ max_retries \in 0..MaxRetries
    /\ test_kind \in TestKinds
    /\ FreshRun

\* A run under any configuration the dataclass accepts: the fields are not
\* validated, so max_retries may be negative and uniqueness_test may be None.
InitAnyConfig ==
    /\ max_retries \in MinRetries..MaxRetries
    /\ test_kind \in TestKinds \cup {"absent"}
    /\ FreshRun

\* ------------------------------------------------------------ observation
\* A reproducer method is entered: what the run records about the call.
Enter(op) ==
    /\ last_call' = op
    /\ started_empty' = (Ids = {} /\ to_evaluate = {})
    /\ ids_at_call' = Ids
    /\ archive_at_call' = archive
    /\ key_at_call' = saving_data
    /\ pending_at_call' = to_evaluate

\* A new slot or parent is taken up: the per-item record starts anew.
StartItem(mutated, generated) ==
    /\ last_test' = NoTest
    /\ n_mutate' = mutated
    /\ n_generate' = generated
    /\ n_test' = 0
    /\ mutate_exit' = "none"
    /\ outcome' = "none"

\* The running method returns: its locals and the record of the call end.
Return ==
    /\ last_call' = "none"
    /\ started_empty' = FALSE
    /\ ids_at_call' = {}
    /\ archive_at_call' = NoArchive
    /\ key_at_call' = NoKey
    /\ pending_at_call' = {}
    /\ last_test' = NoTest
    /\ n_mutate' = 0
    /\ n_generate' = 0
    /\ n_test' = 0
    /\ mutate_exit' = "none"
    /\ outcome' = "none"
    /\ mutate_arg' = NoGenome

NoLocals ==
    /\ todo' = {}
    /\ parent_id' = NoId
    /\ child_id' = NoId
    /\ child_genome' = NoGenome
    /\ num_retries' = 0
    /\ num_to_generate' = 0
    /\ i' = 0
    /\ genome_id' = NoId
    /\ genome' = NoGenome

\* -------------------------------------------------------------- __init__
\* A reproducer is constructed (a fresh run, or a resume against the
\* population a checkpoint restored): self._archive = None.
NewReproducer ==
    /\ pc \in {"idle", "error"}
    /\ archive # NoArchive \/ pc = "error"
    /\ archive' = NoArchive
    /\ pc' = "idle"
    /\ Return
    /\ UNCHANGED <<config, next_genome_id, population, heap, locals>>

\* ------------------------------------------ _initialise_from_checkpoint
\* try: self._archive = population.saving_data[key]
\* except KeyError: self._archive = set(); population.saving_data[key] = ...
\* Faults of the attach step: the lookup is skipped and a new set is always
\* registered; the stored set is copied instead of bound.
AttachOrCreate_AlwaysCreate ==
    /\ heap' = Append(heap, {})
    /\ archive' = Len(heap) + 1
    /\ saving_data' = Len(heap) + 1

AttachOrCreate_Copy ==
    IF saving_data # NoKey
    THEN /\ heap' = Append(heap, heap[saving_data])
         /\ archive' = Len(heap) + 1
         /\ UNCHANGED saving_data
    ELSE /\ heap' = Append(heap, {})
         /\ archive' = Len(heap) + 1
         /\ saving_data' = Len(heap) + 1

AttachOrCreate ==
    IF saving_data # NoKey
    THEN /\ archive' = saving_data
         /\ UNCHANGED <<saving_data, heap>>
    ELSE /\ heap' = Append(heap, {})
         /\ archive' = Len(heap) + 1
         /\ saving_data' = Len(heap) + 1

InitialiseFromCheckpoint ==
    /\ pc = "idle"
    /\ AttachOrCreate
    /\ Enter("attach")
    /\ UNCHANGED <<config, next_genome_id, genomes, to_evaluate, to_reproduce,
                   logging_data, pc, locals, perItem>>

\* ------------------------------------------------- initialise_population
\* range(num_to_generate) draws one id per slot.
SlotsToFill == IF population_size - Cardinality(to_evaluate) > 0
               THEN population_size - Cardinality(to_evaluate) ELSE 0

InitialisePopulation ==
    /\ pc = "idle"
    /\ next_genome_id + SlotsToFill <= MaxGenomeIds
    /\ Enter("initialise_population")
    /\ IF ~ArchiveAsserted
       THEN /\ pc' = "error"
            /\ UNCHANGED <<archive, saving_data, heap, num_to_generate, i>>
       ELSE /\ AttachOrCreate
            /\ IF has_initialisation_f
               THEN /\ pc' = "init_f"
                    /\ UNCHANGED <<num_to_generate, i>>
               ELSE /\ num_to_generate' = population_size - Cardinality(to_evaluate)
                    /\ i' = 0
                    /\ pc' = "init_for"
    /\ UNCHANGED <<config, next_genome_id, genomes, to_evaluate, to_reproduce,
                   logging_data, todo, parent_id, child_id, child_genome,
                   num_retries, genome_id, genome, perItem>>

\* self.config.initialisation_f(self, population): the caller's routine.
InitialisationF ==
    /\ pc = "init_f"
    /\ pc' = "idle"
    /\ Return
    /\ \/ UNCHANGED <<next_genome_id, genomes, to_evaluate>>
       \/ /\ next_genome_id < MaxGenomeIds
          /\ Cardinality(Ids) < population_size
          /\ \E g \in Generate(next_genome_id) :
                genomes' = (next_genome_id :> g) @@ genomes
          /\ to_evaluate' = to_evaluate \cup {next_genome_id}
          /\ next_genome_id' = next_genome_id + 1
    /\ UNCHANGED <<config, archive, to_reproduce, saving_data, logging_data,
                   heap, locals>>

\* for i in range(num_to_generate): genome_id = next_genome_id; generate
InitFor ==
    /\ pc = "init_for"
    /\ IF i < num_to_generate
       THEN /\ genome_id' = next_genome_id
            /\ next_genome_id' = next_genome_id + 1
            /\ genome' \in Generate(next_genome_id)
            /\ num_retries' = 0
            /\ pc' = "init_while"
            /\ StartItem(0, 1)
            /\ UNCHANGED <<num_to_generate, i, todo, parent_id, child_id,
                           child_genome, call, mutate_arg>>
       ELSE /\ pc' = "idle"
            /\ Return
            /\ NoLocals
            /\ UNCHANGED next_genome_id
    /\ UNCHANGED <<config, archive, population, heap>>

\* while not uniqueness_test(...) and num_retries < max_retries: regenerate;
\* then genomes[genome_id] = genome; to_evaluate.add(genome_id)
InitWhile ==
    /\ pc = "init_while"
    /\ \E t \in UniquenessTest(test_kind, heap[archive], genome) :
          /\ heap' = [heap EXCEPT ![archive] = t.arch]
          /\ last_test' = [genome |-> genome, result |-> t.result, made |-> TRUE]
          /\ n_test' = n_test + 1
          /\ IF ContinueRetry(t.result, num_retries)
             THEN /\ genome' \in Generate(genome_id)
                  /\ num_retries' = num_retries + 1
                  /\ n_generate' = n_generate + 1
                  /\ UNCHANGED <<genomes, to_evaluate, i, pc, outcome>>
             ELSE /\ genomes' = (genome_id :> genome) @@ genomes
                  /\ to_evaluate' = to_evaluate \cup {genome_id}
                  /\ i' = i + 1
                  /\ pc' = "init_for"
                  /\ outcome' = "admitted"
                  /\ UNCHANGED <<genome, num_retries, n_generate>>
    /\ UNCHANGED <<config, archive, next_genome_id, to_reproduce, saving_data,
                   logging_data, todo, parent_id, child_id, child_genome,
                   num_to_generate, genome_id, call, n_mutate, mutate_exit,
                   mutate_arg>>

\* ------------------------------------------------------------- reproduce
\* Fault of the iteration: the visited parent stays in the iteration.
RemainingAfter_Keep(rest, p) == rest

\* for parent_id in population.to_reproduce: the parents not yet visited.
RemainingAfter(rest, p) == rest \ {p}

Reproduce ==
    /\ pc = "idle"
    /\ next_genome_id + Cardinality(to_reproduce) <= MaxGenomeIds
    /\ Enter("reproduce")
    /\ IF ~ArchiveAsserted
       THEN /\ pc' = "error"
            /\ UNCHANGED todo
       ELSE /\ todo' = to_reproduce
            /\ pc' = "repr_for"
    /\ UNCHANGED <<config, archive, next_genome_id, population, heap,
                   parent_id, child_id, child_genome, num_retries,
                   num_to_generate, i, genome_id, genome, perItem>>

\* Fault of the metric: the population is counted instead of the archive.
ArchiveSizeMetric_Genomes == Cardinality(Ids)

\* logging_data["UniqueReproducer/number_of_unique_genomes"] = len(self._archive)
ArchiveSizeMetric == Cardinality(heap[archive])

\* The loop header and lines 78-83: take the next parent, draw the child id,
\* mutate the parent; after the last parent, write the metric and return.
ReprFor ==
    /\ pc = "repr_for"
    /\ IF todo # {}
       THEN /\ next_genome_id < MaxGenomeIds
            /\ \E p \in todo :
                  /\ parent_id' = p
                  /\ todo' = RemainingAfter(todo, p)
                  /\ child_genome' \in Mutate(genomes[p], next_genome_id)
                  /\ mutate_arg' = genomes[p]
            /\ child_id' = next_genome_id
            /\ next_genome_id' = next_genome_id + 1
            /\ num_retries' = 0
            /\ pc' = "repr_mutate_while"
            /\ StartItem(1, 0)
            /\ UNCHANGED <<logging_data, num_to_generate, i, genome_id, genome,
                           call>>
       ELSE /\ logging_data' = ArchiveSizeMetric
            /\ pc' = "idle"
            /\ Return
            /\ NoLocals
            /\ UNCHANGED next_genome_id
    /\ UNCHANGED <<config, archive, genomes, to_evaluate, to_reproduce,
                   saving_data, heap>>

\* Fault of the admission: an exhausted parent is replaced by the candidate.
AdmitOrDrop_Replace(n) ==
    IF AdmitChild(n)
    THEN /\ genomes' = (child_genome.genome_id :> child_genome) @@ genomes
         /\ to_evaluate' = to_evaluate \cup {child_genome.genome_id}
         /\ outcome' = "admitted"
    ELSE /\ outcome' = "dropped"
         /\ genomes' = [genomes EXCEPT ![parent_id] = child_genome]
         /\ UNCHANGED to_evaluate

\* child_genome.genome_id = parent_id: the rejected candidate under the
\* parent's id.
Relabelled(g, id) == [g EXCEPT !.genome_id = id]

\* if num_retries < max_retries:
\*     genomes[child_genome.genome_id] = child_genome; to_evaluate.add(...)
AdmitOrDrop(n) ==
    IF AdmitChild(n)
    THEN /\ genomes' = (child_genome.genome_id :> child_genome) @@ genomes
         /\ to_evaluate' = to_evaluate \cup {child_genome.genome_id}
         /\ outcome' = "admitted"
    ELSE /\ outcome' = "dropped"
         /\ UNCHANGED <<genomes, to_evaluate>>

\* while not uniqueness_test(...) and num_retries < max_retries:
\*     child_genome.genome_id = parent_id
\*     child_genome = child_genome.mutate(child_id); num_retries += 1
\* and, once the loop is left, if num_retries == max_retries: num_retries = 0
\* and the regenerate loop is next; otherwise the admission test.
ReprMutateWhile ==
    /\ pc = "repr_mutate_while"
    /\ \E t \in UniquenessTest(test_kind, heap[archive], child_genome) :
          /\ heap' = [heap EXCEPT ![archive] = t.arch]
          /\ last_test' = [genome |-> child_genome, result |-> t.result,
                           made |-> TRUE]
          /\ n_test' = n_test + 1
          /\ IF ContinueRetry(t.result, num_retries)
             THEN /\ child_genome' \in
                        Mutate(Relabelled(child_genome, parent_id), child_id)
                  /\ mutate_arg' = Relabelled(child_genome, parent_id)
                  /\ num_retries' = num_retries + 1
                  /\ n_mutate' = n_mutate + 1
                  /\ UNCHANGED <<pc, mutate_exit, outcome, genomes, to_evaluate>>
             ELSE /\ mutate_exit' = IF t.result THEN "accepted" ELSE "rejected"
                  /\ IF EnterRegenerate(num_retries)
                     THEN /\ num_retries' = 0
                          /\ pc' = "repr_regen_while"
                          /\ UNCHANGED <<outcome, genomes, to_evaluate>>
                     ELSE /\ AdmitOrDrop(num_retries)
                          /\ pc' = "repr_for"
                          /\ UNCHANGED num_retries
                  /\ mutate_arg' = NoGenome
                  /\ UNCHANGED <<child_genome, n_mutate>>
    /\ UNCHANGED <<config, archive, next_genome_id, to_reproduce, saving_data,
                   logging_data, todo, parent_id, child_id, num_to_generate, i,
                   genome_id, genome, call, n_generate>>

\* while not uniqueness_test(...) and num_retries < max_retries:
\*     child_genome = generate(genome_id=child_id); num_retries += 1
\* and, once the loop is left, the admission test.
ReprRegenWhile ==
    /\ pc = "repr_regen_while"
    /\ \E t \in UniquenessTest(test_kind, heap[archive], child_genome) :
          /\ heap' = [heap EXCEPT ![archive] = t.arch]
          /\ last_test' = [genome |-> child_genome, result |-> t.result,
                           made |-> TRUE]
          /\ n_test' = n_test + 1
          /\ IF ContinueRetry(t.result, num_retries)
             THEN /\ child_genome' \in Generate(child_id)
                  /\ num_retries' = num_retries + 1
                  /\ n_generate' = n_generate + 1
                  /\ UNCHANGED <<pc, outcome, genomes, to_evaluate>>
             ELSE /\ AdmitOrDrop(num_retries)
                  /\ pc' = "repr_for"
                  /\ UNCHANGED <<child_genome, num_retries, n_generate>>
    /\ UNCHANGED <<config, archive, next_genome_id, to_reproduce, saving_data,
                   logging_data, todo, parent_id, child_id, num_to_generate, i,
                   genome_id, genome, call, n_mutate, mutate_exit, mutate_arg>>

\* ------------------------------------------------------------ environment
\* Between two calls the generation loop evaluates the pending genomes and
\* the selection flags the parents of the next generation.
EvaluateAndSelect ==
    /\ pc = "idle"
    /\ \E parents \in SUBSET Ids :
          /\ next_genome_id + Cardinality(parents) <= MaxGenomeIds
          /\ to_reproduce' = parents
    /\ to_evaluate' = {}
    /\ Return
    /\ UNCHANGED <<config, archive, next_genome_id, genomes, saving_data,
                   logging_data, heap, pc, locals>>

Next ==
    \/ NewReproducer
    \/ InitialiseFromCheckpoint
    \/ InitialisePopulation
    \/ InitialisationF
    \/ InitFor
    \/ InitWhile
    \/ Reproduce
    \/ ReprFor
    \/ ReprMutateWhile
    \/ ReprRegenWhile
    \/ EvaluateAndSelect

Spec == Init /\ [][Next]_vars

\* reproduce is ordinary sequential code: once called it keeps executing
\* until it returns.
ReproduceRuns == ReprFor \/ ReprMutateWhile \/ ReprRegenWhile

FairSpec == Spec /\ WF_vars(ReproduceRuns)

\* not None(self._archive, genome, population): calling the absent test
\* raises TypeError out of the running method.
CallAbsentTest ==
    /\ pc \in {"init_while", "repr_mutate_while", "repr_regen_while"}
    /\ test_kind = "absent"
    /\ pc' = "error"
    /\ NoLocals
    /\ UNCHANGED <<config, archive, next_genome_id, population, heap, observed>>

NextAnyConfig ==
    \/ Next
    \/ CallAbsentTest

SpecAnyConfig == InitAnyConfig /\ [][NextAnyConfig]_vars

\* =================================================================== claims
\* A call of initialise_population has ended: it raised, or its loop is at
\* the header with no slot left (the state it returns from).
InitialisePopulationEnded ==
    /\ last_call = "initialise_population"
    /\ \/ pc = "error"
       \/ pc = "init_for" /\ i >= num_to_generate

\* The attach-or-create step runs in this step: called directly, or from
\* initialise_population once its assertion has passed.
AttachStep ==
    \/ InitialiseFromCheckpoint
    \/ InitialisePopulation /\ ArchiveAsserted

\* C1: generic initialisation that starts from a population with no genomes
\* and an empty to_evaluate ends with len(genomes) = population_size, for
\* every uniqueness test and every max_retries >= 0.
C1_InitialisationFillsPopulation ==
    (InitialisePopulationEnded /\ started_empty /\ ~has_initialisation_f)
        => Cardinality(Ids) = population_size

\* C2: initialise_population called as the first operation on a newly
\* constructed reproducer, with no archive key in the persisted data, raises
\* no error and leaves the reproducer bound to the archive registered under
\* the key.
C2_FirstUseCreatesArchive ==
    (last_call = "initialise_population"
        /\ archive_at_call = NoArchive /\ key_at_call = NoKey)
        => /\ pc # "error"
           /\ archive # NoArchive
           /\ saving_data = archive

C4_AttachIdempotent ==
    /\ [][(archive # NoArchive /\ AttachStep)
            => /\ archive' = archive
               /\ archive' = saving_data'
               /\ saving_data' = saving_data
               /\ heap' = heap]_vars
    /\ [](Len(heap) <= 1)

\* C4 witness: the attach step has just run on a reproducer that was already
\* bound, with entries in the archive.
C4_Witness ==
    /\ last_call \in {"attach", "initialise_population"}
    /\ archive_at_call # NoArchive
    /\ archive = archive_at_call
    /\ heap[archive] # {}
    /\ pc # "error"

\* reproduce has finished with a parent: the state after the admission test.
ParentDone ==
    /\ last_call = "reproduce"
    /\ pc = "repr_for"
    /\ outcome # "none"

\* The steps in which the uniqueness test is called.
TestPcs == {"init_while", "repr_mutate_while", "repr_regen_while"}

\* C5: whatever a step of reproduce adds to genomes or to_evaluate is the
\* genome on which the most recent uniqueness-test call of that parent's
\* processing (the call that ended the last loop) was made, and that call
\* returned true.
AdmissionStep ==
    pc \in ReproducePcs
          => /\ \A id \in DOMAIN genomes' :
                  (id \notin Ids \/ genomes'[id] # genomes[id])
                      => /\ last_test'.made
                         /\ last_test'.result
                         /\ genomes'[id] = last_test'.genome
             /\ \A id \in to_evaluate' \ to_evaluate :
                  /\ last_test'.made
                  /\ last_test'.result
                  /\ id = last_test'.genome.genome_id
                  /\ id \in DOMAIN genomes'
                  /\ genomes'[id] = last_test'.genome

C5_AdmittedOnlyIfAccepted == [][AdmissionStep]_vars

\* C5 witness: a child was admitted after at least one candidate of its
\* parent had been rejected.
C5_Witness ==
    /\ ParentDone
    /\ outcome = "admitted"
    /\ n_test >= 2
    /\ child_id \in Ids
    /\ child_id \in to_evaluate
    /\ genomes[child_id] = last_test.genome

\* C6: a candidate the uniqueness test accepted at the end of a retry loop
\* (at any retry count up to max_retries) is admitted, and a parent is
\* dropped only when both loops ended with a rejection.
C6_AdmittedIffAccepted ==
    ParentDone
        => /\ mutate_exit = "accepted" => outcome = "admitted"
           /\ last_test.result
                => /\ outcome = "admitted"
                   /\ genomes[child_id] = last_test.genome
           /\ outcome = "dropped"
                => /\ mutate_exit = "rejected"
                   /\ ~last_test.result

\* C7 as stated: with an always-rejecting test a parent sees at most
\* max_retries mutate attempts, then at most max_retries generate attempts,
\* and is dropped.
C7_RetryBudgetAsStated ==
    (test_kind = "reject" /\ pc \in ReproducePcs)
        => /\ n_mutate <= max_retries
           /\ n_generate <= max_retries
           /\ outcome # "admitted"

\* C7 as amended: with an always-rejecting test a parent sees at most
\* max_retries + 1 mutate calls (the initial mutation and at most max_retries
\* re-mutations), followed by at most max_retries generate calls, and is then
\* dropped; the call admits no child.
C7_RetryBudget ==
    (test_kind = "reject" /\ pc \in ReproducePcs)
        => /\ n_mutate <= max_retries + 1
           /\ n_generate <= max_retries
           /\ n_generate > 0 => (n_mutate = max_retries + 1
                                    /\ pc \in {"repr_regen_while", "repr_for"})
           /\ outcome # "admitted"
           /\ Ids = ids_at_call

\* C7 witness: an always-rejected parent was dropped after the full budget.
C7_Witness ==
    /\ test_kind = "reject"
    /\ ParentDone
    /\ outcome = "dropped"
    /\ max_retries >= 2
    /\ n_mutate = max_retries + 1
    /\ n_generate = max_retries

\* C8: with an always-accepting test, for every max_retries >= 0, each
\* parent yields exactly one child, the result of the first mutate call, with
\* no re-mutation and no regeneration.
C8_AlwaysAcceptFastPath ==
    (test_kind = "accept" /\ ParentDone)
        => /\ outcome = "admitted"
           /\ n_mutate = 1
           /\ n_generate = 0
           /\ num_retries = 0
           /\ child_id \in Ids
           /\ genomes[child_id] = child_genome
           /\ Cardinality(Ids \ ids_at_call) = Cardinality(to_reproduce \ todo)

\* C9: the persisted archive never loses an entry and never shrinks, the key
\* is never rebound once it exists, a bound reproducer is bound to the set
\* under the key, and only the steps that call the uniqueness test change
\* the contents of a set.
ArchiveStep ==
       /\ saving_data # NoKey
            => /\ saving_data' = saving_data
               /\ heap[saving_data] \subseteq heap'[saving_data]
       /\ Cardinality(PersistedArchive') >= Cardinality(PersistedArchive)
       /\ archive' # NoArchive => archive' = saving_data'
       /\ pc \notin TestPcs => \A o \in DOMAIN heap : heap'[o] = heap[o]
       /\ \A o \in DOMAIN heap' \ DOMAIN heap : heap'[o] = {}

C9_ArchiveMonotone == [][ArchiveStep]_vars

\* C9 witness: the archive has grown since the previous reproduce call
\* logged a non-zero size.
C9_Witness ==
    /\ last_call = "reproduce"
    /\ logging_data >= 1
    /\ Cardinality(PersistedArchive) > logging_data

\* C10: at every point of a reproduce call the genomes added to genomes, and
\* the ids added to to_evaluate, are no more than the parents visited so
\* far, hence no more than len(to_reproduce).
C10_AtMostOneChildPerParent ==
    (last_call = "reproduce" /\ pc \in ReproducePcs)
        => /\ Cardinality(Ids \ ids_at_call)
                <= Cardinality(to_reproduce \ todo)
           /\ Cardinality(to_evaluate \ ids_at_call)
                <= Cardinality(to_reproduce \ todo)
           /\ Cardinality(Ids \ ids_at_call) <= Cardinality(to_reproduce)

\* C10 witness: a call over two parents has admitted a child for each.
C10_Witness ==
    /\ last_call = "reproduce"
    /\ pc = "repr_for"
    /\ todo = {}
    /\ Cardinality(to_reproduce) = 2
    /\ Cardinality(Ids \ ids_at_call) = 2

\* C11: a configuration with max_retries < 0 or without a uniqueness test
\* never yields a usable reproducer: construction ends in an error state.
C11_InvalidConfigFailsEagerly ==
    (max_retries < 0 \/ test_kind = "absent") => pc = "error"

\* C12: a step of reproduce raises nothing and leaves every genome entry
\* that was present unchanged; the step in which the regenerate loop ends
\* with a rejection drops the parent, adding nothing to genomes or
\* to_evaluate and leaving the remaining parents to be processed; the step
\* that admits a child puts it in genomes and in to_evaluate under the
\* child id.
ExhaustionStep ==
    pc \in ReproducePcs
        => /\ pc' # "error"
           /\ \A id \in Ids : id \in DOMAIN genomes' /\ genomes'[id] = genomes[id]
           /\ to_evaluate \subseteq to_evaluate'
           /\ (pc = "repr_regen_while" /\ pc' = "repr_for" /\ ~last_test'.result)
                => /\ outcome' = "dropped"
                   /\ genomes' = genomes
                   /\ to_evaluate' = to_evaluate
                   /\ todo' = todo
           /\ (outcome = "none" /\ outcome' = "admitted")
                => /\ child_id \in DOMAIN genomes'
                   /\ child_id \in to_evaluate'
                   /\ genomes'[child_id].genome_id = child_id
                   /\ DOMAIN genomes' = Ids \cup {child_id}
                   /\ to_evaluate' = to_evaluate \cup {child_id}

C12_ExhaustionAbsorbed == [][ExhaustionStep]_vars

\* C12 witness: a parent was dropped after both loops ended with a
\* rejection, and a parent is left to be processed.
C12_Witness ==
    /\ ParentDone
    /\ outcome = "dropped"
    /\ mutate_exit = "rejected"
    /\ ~last_test.result
    /\ n_generate >= 1
    /\ todo # {}

\* C13: the step in which a reproduce call returns is taken after the last
\* parent was processed and leaves in logging_data the size the archive has
\* at that moment; no other step writes the metric.
MetricStep ==
    /\ (pc \in ReproducePcs /\ pc' = "idle")
         => /\ pc = "repr_for"
            /\ todo = {}
            /\ logging_data' = Cardinality(heap'[archive'])
            /\ logging_data' = Cardinality(PersistedArchive')
    /\ logging_data' # logging_data
         => /\ pc = "repr_for"
            /\ todo = {}
            /\ pc' = "idle"

C13_ArchiveSizeMetric == [][MetricStep]_vars

\* C13 witness: a reproduce call over some parents has returned and the
\* metric it wrote is the size of a non-empty archive.
C13_Witness ==
    /\ pc = "idle"
    /\ last_call = "none"
    /\ to_reproduce # {}
    /\ to_evaluate # {}
    /\ logging_data >= 1
    /\ logging_data = Cardinality(PersistedArchive)

\* C14: every candidate the mutate phase tests is a mutation of the parent
\* genome itself, made under the child id drawn for the parent.
C14_RetryMutatesParent ==
    pc = "repr_mutate_while"
        => /\ mutate_arg = genomes[parent_id]
           /\ child_genome.genome_id = child_id

\* C15: the regenerate loop runs for a parent only after the mutate loop
\* used its whole budget and ended with a rejection (so no candidate the test
\* accepted in the mutate phase is tested again or replaced), and its
\* counter counts the regenerations only.
C15_RegenerateOnlyAfterRejection ==
    pc = "repr_regen_while"
        => /\ mutate_exit = "rejected"
           /\ n_mutate = max_retries + 1
           /\ num_retries = n_generate

\* C16: with the recording test and the generic initialiser, whenever no
\* item is half processed every signature in the archive is the signature of
\* a genome in population.genomes, and the logged archive size is at most
\* the number of genomes.
C16_ArchiveEntriesAdmitted ==
    (test_kind = "recording" /\ ~has_initialisation_f
        /\ pc \in {"idle", "init_for", "repr_for"})
        => /\ PersistedArchive \subseteq {genomes[id].sig : id \in Ids}
           /\ logging_data <= Cardinality(Ids)

\* C17: when a generic initialise_population call has ended, the ids it
\* added number max(0, population_size - |to_evaluate| at the call), each is
\* in genomes and in to_evaluate, and |to_evaluate| is the larger of
\* population_size and its size at the call.
C17_SlotsToGenerate ==
    (InitialisePopulationEnded /\ ~has_initialisation_f)
        => /\ Cardinality(Ids \ ids_at_call) =
                (IF population_size > Cardinality(pending_at_call)
                 THEN population_size - Cardinality(pending_at_call) ELSE 0)
           /\ to_evaluate = pending_at_call \cup (Ids \ ids_at_call)
           /\ Cardinality(to_evaluate) =
                (IF population_size > Cardinality(pending_at_call)
                 THEN population_size ELSE Cardinality(pending_at_call))

\* C18: while a slot of initialise_population is processed the candidate
\* carries the one id drawn for the slot, an id no genome has yet; it is
\* only regenerated after a rejection, at most max_retries times, with at
\* most max_retries + 1 test calls; the genome admitted under the id is the
\* last one generated, which is the one the last test call was made on.
C18_SlotRetryPolicy ==
    /\ pc = "init_while"
         => /\ genome.genome_id = genome_id
            /\ genome_id \notin Ids
            /\ genome_id = next_genome_id - 1
            /\ n_generate = num_retries + 1
            /\ n_test = num_retries
            /\ num_retries <= max_retries
            /\ last_test.made => ~last_test.result
    /\ (pc = "init_for" /\ outcome = "admitted")
         => /\ genome_id \in Ids
            /\ genome_id \in to_evaluate
            /\ genome_id \notin ids_at_call
            /\ genomes[genome_id] = genome
            /\ genome.genome_id = genome_id
            /\ last_test.genome = genome
            /\ n_generate <= max_retries + 1
            /\ n_test = n_generate
            /\ last_test.result \/ n_generate = max_retries + 1

\* C18 witness: a slot was filled by the genome of the last allowed
\* regeneration, which the test accepted.
C18_Witness ==
    /\ pc = "init_for"
    /\ outcome = "admitted"
    /\ max_retries >= 2
    /\ n_generate = max_retries + 1
    /\ last_test.result
    /\ genomes[genome_id] = last_test.genome

\* C19: an initialise_population call under a configured initialisation_f
\* raises nothing, binds the reproducer to the archive under the key and is
\* then at the call of initialisation_f, having generated and tested nothing
\* and added nothing to genomes or to_evaluate itself.
C19_CustomInitialiserDelegates ==
    (last_call = "initialise_population" /\ has_initialisation_f)
        => /\ pc = "init_f"
           /\ archive # NoArchive
           /\ archive = saving_data
           /\ n_test = 0
           /\ n_generate = 0
           /\ Ids = ids_at_call
           /\ to_evaluate = pending_at_call

\* C20: a reproduce call returns; per parent the mutate loop makes at most
\* max_retries + 1 test calls and the regenerate loop at most
\* max_retries + 1; the parents still to visit only shrink, by the parent
\* taken up, the call returns only when none is left, it does not change
\* to_reproduce, and nothing of a parent is kept once it has returned.
BoundedWork ==
    /\ pc = "repr_mutate_while"
         => /\ num_retries <= max_retries
            /\ n_test = num_retries
            /\ n_mutate = num_retries + 1
    /\ pc = "repr_regen_while"
         => /\ num_retries <= max_retries
            /\ n_mutate <= max_retries + 1
            /\ n_test = n_mutate + num_retries
            /\ n_generate = num_retries
    /\ ParentDone
         => /\ n_mutate <= max_retries + 1
            /\ n_test <= n_mutate + max_retries + 1
            /\ n_test <= 2 * (max_retries + 1)
    /\ pc \in ReproducePcs
         => /\ todo \subseteq to_reproduce
            /\ parent_id # NoId => parent_id \in to_reproduce \ todo
    /\ pc = "idle" => (todo = {} /\ parent_id = NoId /\ num_retries = 0)

VisitStep ==
    pc \in ReproducePcs
        => /\ to_reproduce' = to_reproduce
           /\ IF pc = "repr_for" /\ pc' = "repr_mutate_while"
              THEN /\ parent_id' \in todo
                   /\ todo' = todo \ {parent_id'}
              ELSE /\ todo' = todo
                   /\ pc' # "idle" => parent_id' = parent_id
           /\ pc' = "idle" => todo = {}

C20_ReproduceTerminates ==
    /\ []BoundedWork
    /\ [][VisitStep]_vars
    /\ (pc \in ReproducePcs) ~> (pc = "idle")

\* C20 witness: a call over two parents has visited both, the last one with
\* the full budget of test calls in both loops.
C20_Witness ==
    /\ last_call = "reproduce"
    /\ pc = "repr_for"
    /\ todo = {}
    /\ Cardinality(to_reproduce) = 2
    /\ max_retries >= 2
    /\ n_test = 2 * (max_retries + 1)

====
